---- MODULE Spec2Model ----
(***************************************************************************)
(* Model of src/src/State.cpp: the State class of a Resource Allocation    *)
(* Denial (Banker's Algorithm) simulator.  The State Store is the set of   *)
(* member arrays of State; loadState() fills it from a file,               *)
(* inferStateInformation() derives need and resourceAvailable, and         *)
(* isSafe() runs the greedy completion simulation on local copies.         *)
(*                                                                         *)
(* A file is modelled by the integers that operator>> extracts from it:    *)
(* <<n, m, total, claim, alloc>> with 1-indexed token rows.  Files that    *)
(* run out of tokens are outside the model.  A store value is the tuple    *)
(* of the seven member fields in the order of the variable list.           *)
(***************************************************************************)
EXTENDS Integers, Sequences, FiniteSets, TLC

VARIABLES numProcesses, numResources, claim, allocation, need, resourceTotal,
          resourceAvailable, pc, currentAvailable, completed, possible,
          loadOutcome, lastFile, verdicts, iterations, order

vars == <<numProcesses, numResources, claim, allocation, need, resourceTotal,
          resourceAvailable, pc, currentAvailable, completed, possible,
          loadOutcome, lastFile, verdicts, iterations, order>>

(***************************************************************************)
(* Program constants (declared in State.hpp, used throughout State.cpp).   *)
(* The capacities are scaled to the smallest values that hold the classic  *)
(* 5 x 3 example.                                                          *)
(***************************************************************************)
MAX_PROCESSES == 5

MAX_RESOURCES == 3

BAD_VALUE == -1

NO_CANDIDATE == -1

(***************************************************************************)
(* Bounds of the enumerated inputs: an enumerated file has at most         *)
(* MaxCells matrix cells (n * m), numbers in 0 .. MaxVal and allocations   *)
(* within the claims;                                                      *)
(* isSafe() is called at most MaxCalls times on an unchanged store.        *)
(***************************************************************************)
MaxCells == 4

MaxVal == 1

MaxCalls == 2

ProcIdx == 0 .. (MAX_PROCESSES - 1)

ResIdx == 0 .. (MAX_RESOURCES - 1)

\* isSafe's loop runs at most numProcesses + 1 times; the cap keeps a
\* faulty variant of the loop finite
IterationCap == MAX_PROCESSES + 2

(***************************************************************************)
(* Input files.                                                            *)
(***************************************************************************)
FileOf(n, m, t, c, a) == <<n, m, t, c, a>>

FileProcesses(f) == f[1]

FileResources(f) == f[2]

FileTotal(f) == f[3]

FileClaim(f) == f[4]

FileAlloc(f) == f[5]

\* the numbers of an enumerated file
Vectors(m) == [1 .. m -> 0 .. MaxVal]

Matrices(n, m) == [1 .. n -> [1 .. m -> 0 .. MaxVal]]

\* the allocation matrices that stay within the claim matrix c
Allocations(n, m, c) ==
  { a \in Matrices(n, m) : \A p \in 1 .. n : \A r \in 1 .. m : a[p][r] <= c[p][r] }

\* the shapes n x m of the enumerated files
Shapes ==
  { sh \in (0 .. MAX_PROCESSES) \X (0 .. MAX_RESOURCES) : sh[1] * sh[2] <= MaxCells }

\* the shapes of the files a State object is loaded from again and again
SmallShapes == { sh \in Shapes : sh[1] <= 2 /\ sh[2] <= 1 }

\* the classic example: 5 processes, 3 resources, totals 10 5 7
ClassicFile ==
  FileOf(5, 3, <<10, 5, 7>>,
         << <<7, 5, 3>>, <<3, 2, 2>>, <<9, 0, 2>>, <<2, 2, 2>>, <<4, 3, 3>> >>,
         << <<0, 1, 0>>, <<2, 0, 0>>, <<3, 0, 2>>, <<2, 1, 1>>, <<0, 0, 2>> >>)

\* files the loader accepts although they break the input contract:
\* negative allocations, allocations above the claim, a negative process count
MalformedFiles ==
  { FileOf(2, 1, <<0>>, << <<0>>, <<1>> >>, << <<-1>>, <<0>> >>),
    FileOf(2, 1, <<2>>, << <<0>>, <<1>> >>, << <<1>>, <<0>> >>),
    FileOf(1, 2, <<1, 1>>, << <<0, 1>> >>, << <<1, 0>> >>),
    FileOf(2, 2, <<1, 1>>, << <<0, 1>>, <<1, 1>> >>, << <<-1, 0>>, <<0, 0>> >>),
    FileOf(2, 1, <<-1>>, << <<-1>>, <<0>> >>, << <<-1>>, <<0>> >>),
    FileOf(-1, 1, <<1>>, <<>>, <<>>) }

OnesMatrix(n, m) == [p \in 1 .. n |-> [r \in 1 .. m |-> 1]]

OnesFile(n, m) ==
  FileOf(n, m, [r \in 1 .. m |-> 1], OnesMatrix(n, m), OnesMatrix(n, m))

\* files whose header asks for more than the fixed arrays hold
OverCapacityFiles ==
  { OnesFile(MAX_PROCESSES + 1, 1),
    OnesFile(1, MAX_RESOURCES + 1),
    OnesFile(MAX_PROCESSES + 1, MAX_RESOURCES + 1),
    OnesFile(MAX_PROCESSES + 2, MAX_RESOURCES) }

\* files at the capacity boundary
BoundaryFiles ==
  { OnesFile(MAX_PROCESSES, 1),
    OnesFile(1, MAX_RESOURCES),
    OnesFile(MAX_PROCESSES, MAX_RESOURCES) }

\* the store holds no file's contents
NoFile == <<>>

\* the hand-written stores isSafe() is applied to
SafetyFiles == {ClassicFile} \cup MalformedFiles \cup BoundaryFiles

\* the hand-written files a State object is loaded from
LifecycleFiles == {ClassicFile} \cup MalformedFiles \cup BoundaryFiles

(***************************************************************************)
(* State::initializeState                                                  *)
(***************************************************************************)
InitializedMatrix == [p \in ProcIdx |-> [r \in ResIdx |-> BAD_VALUE]]

InitializedVector == [r \in ResIdx |-> BAD_VALUE]

StoreOf(np, nr, cl, al, nd, tot, av) == <<np, nr, cl, al, nd, tot, av>>

InitializedStore ==
  StoreOf(0, 0, InitializedMatrix, InitializedMatrix, InitializedMatrix,
          InitializedVector, InitializedVector)

(***************************************************************************)
(* State::inferStateInformation                                            *)
(***************************************************************************)
InferNeed(n, m, cl, al, old) ==
  [p \in ProcIdx |-> [r \in ResIdx |->
     IF p < n /\ r < m THEN cl[p][r] - al[p][r] ELSE old[p][r]]]

RECURSIVE CurrentAllocation(_, _, _)
\* the running sum of column r over processes 0 .. n-1
CurrentAllocation(al, r, n) ==
  IF n <= 0 THEN 0 ELSE CurrentAllocation(al, r, n - 1) + al[n - 1][r]

\* faulty variant: the column sum starts at process 1
InferAvailableFromSecond(n, m, tot, al, old) ==
  [r \in ResIdx |->
     IF r < m
     THEN tot[r] - (CurrentAllocation(al, r, n) - (IF n > 0 THEN al[0][r] ELSE 0))
     ELSE old[r]]

InferAvailable(n, m, tot, al, old) ==
  [r \in ResIdx |->
     IF r < m THEN tot[r] - CurrentAllocation(al, r, n) ELSE old[r]]

InferStateInformationOf(s) ==
  StoreOf(s[1], s[2], s[3], s[4],
          InferNeed(s[1], s[2], s[3], s[4], s[5]),
          s[6],
          InferAvailable(s[1], s[2], s[6], s[4], s[7]))

(***************************************************************************)
(* State::loadState                                                        *)
(***************************************************************************)
\* faulty variant: the capacity check rejects the maximum itself
ExceedsMaximumInclusive(n, m) == (n >= MAX_PROCESSES) \/ (m >= MAX_RESOURCES)

ExceedsMaximum(n, m) == (n > MAX_PROCESSES) \/ (m > MAX_RESOURCES)

ReadVector(m, tokens) ==
  [r \in ResIdx |-> IF r < m THEN tokens[r + 1] ELSE BAD_VALUE]

ReadMatrix(n, m, tokens) ==
  [p \in ProcIdx |-> [r \in ResIdx |->
     IF p < n /\ r < m THEN tokens[p + 1][r + 1] ELSE BAD_VALUE]]

\* the store loadState leaves behind for an openable file f
LoadedStore(f) ==
  LET n == FileProcesses(f)
      m == FileResources(f)
  IN  IF ExceedsMaximum(n, m)
      THEN StoreOf(n, m, InitializedMatrix, InitializedMatrix, InitializedMatrix,
                   InitializedVector, InitializedVector)
      ELSE InferStateInformationOf(
             StoreOf(n, m, ReadMatrix(n, m, FileClaim(f)), ReadMatrix(n, m, FileAlloc(f)),
                     InitializedMatrix, ReadVector(m, FileTotal(f)), InitializedVector))

LoadOutcomeOf(f) ==
  IF ExceedsMaximum(FileProcesses(f), FileResources(f)) THEN "maxExceeded" ELSE "loaded"

SetStore(s) ==
  /\ numProcesses' = s[1]
  /\ numResources' = s[2]
  /\ claim' = s[3]
  /\ allocation' = s[4]
  /\ need' = s[5]
  /\ resourceTotal' = s[6]
  /\ resourceAvailable' = s[7]

StoreIs(s) ==
  /\ numProcesses = s[1]
  /\ numResources = s[2]
  /\ claim = s[3]
  /\ allocation = s[4]
  /\ need = s[5]
  /\ resourceTotal = s[6]
  /\ resourceAvailable = s[7]

CurrentStore ==
  StoreOf(numProcesses, numResources, claim, allocation, need, resourceTotal,
          resourceAvailable)

NoLocals ==
  /\ currentAvailable = <<>>
  /\ completed = <<>>
  /\ possible = FALSE

\* the array bounds that every indexing member function relies on: with a
\* count above the capacity (left behind by a loadState that threw) isSafe()
\* and inferStateInformation() index past the arrays, and those calls are
\* not part of the model
WithinArrays == numProcesses <= MAX_PROCESSES /\ numResources <= MAX_RESOURCES

Init ==
  /\ StoreIs(InitializedStore)
  /\ pc = "idle"
  /\ NoLocals
  /\ loadOutcome = "none"
  /\ lastFile = NoFile
  /\ verdicts = <<>>
  /\ iterations = 0
  /\ order = <<>>

\* State::initializeState called on its own
InitializeState ==
  /\ pc = "idle"
  /\ SetStore(InitializedStore)
  /\ loadOutcome' = "none"
  /\ lastFile' = NoFile
  /\ verdicts' = <<>>
  /\ UNCHANGED <<pc, currentAvailable, completed, possible, iterations, order>>

\* State::loadState of a file that opens: the store is reset, the counts
\* are read, and the capacity check throws or the rest is read and the
\* derivation run
LoadState(f) ==
  /\ pc = "idle"
  /\ SetStore(LoadedStore(f))
  /\ loadOutcome' = LoadOutcomeOf(f)
  /\ lastFile' = f
  /\ verdicts' = <<>>
  /\ UNCHANGED <<pc, currentAvailable, completed, possible, iterations, order>>

\* State::loadState of a name that cannot be opened: it throws before the
\* store is touched
LoadStateNotFound ==
  /\ pc = "idle"
  /\ loadOutcome' = "notFound"
  /\ UNCHANGED <<numProcesses, numResources, claim, allocation, need,
                 resourceTotal, resourceAvailable, lastFile, verdicts,
                 pc, currentAvailable, completed, possible, iterations, order>>

\* State::inferStateInformation called on its own
InferStateInformation ==
  /\ pc = "idle"
  /\ WithinArrays
  /\ SetStore(InferStateInformationOf(CurrentStore))
  /\ verdicts' = <<>>
  /\ UNCHANGED <<pc, currentAvailable, completed, possible, loadOutcome,
                 lastFile, iterations, order>>

(***************************************************************************)
(* copyVector, State::needsAreMet, State::findCandidateProcess,            *)
(* State::releaseAllocatedResources                                        *)
(***************************************************************************)
\* the cells of dstVector that copyVector writes
CopyVector(numItems, srcVector) ==
  IF numItems <= 0 THEN <<>> ELSE [item \in 0 .. (numItems - 1) |-> srcVector[item]]

\* faulty variant: the last resource type is not compared
NeedsAreMetOffByOne(processID, currentAvaliable) ==
  \A i \in 0 .. (numResources - 2) : ~(need[processID][i] > currentAvaliable[i])

\* faulty variant: a need equal to what is available is refused
NeedsAreMetStrict(processID, currentAvaliable) ==
  \A i \in 0 .. (numResources - 1) : ~(need[processID][i] >= currentAvaliable[i])

NeedsAreMet(processID, currentAvaliable) ==
  \A i \in 0 .. (numResources - 1) : ~(need[processID][i] > currentAvaliable[i])

RECURSIVE FindCandidateFrom(_, _, _)
FindCandidateFrom(process, isCompleted, currentAvaliable) ==
  IF ~(process < numProcesses)
  THEN NO_CANDIDATE
  ELSE IF (~isCompleted[process]) /\ NeedsAreMet(process, currentAvaliable)
       THEN process
       ELSE FindCandidateFrom(process + 1, isCompleted, currentAvaliable)

RECURSIVE FindIgnoringCompletedFrom(_, _)
FindIgnoringCompletedFrom(process, currentAvaliable) ==
  IF ~(process < numProcesses)
  THEN NO_CANDIDATE
  ELSE IF NeedsAreMet(process, currentAvaliable)
       THEN process
       ELSE FindIgnoringCompletedFrom(process + 1, currentAvaliable)

\* faulty variant: the completed flag is not consulted
FindCandidateProcessIgnoringCompleted(isCompleted, currentAvaliable) ==
  FindIgnoringCompletedFrom(0, currentAvaliable)

\* faulty variant: the scan gives up after process 0
FindCandidateProcessFirstOnly(isCompleted, currentAvaliable) ==
  IF 0 < numProcesses /\ (~isCompleted[0]) /\ NeedsAreMet(0, currentAvaliable)
  THEN 0
  ELSE NO_CANDIDATE

RECURSIVE FindCandidateDownFrom(_, _, _)
FindCandidateDownFrom(process, isCompleted, currentAvaliable) ==
  IF process < 0
  THEN NO_CANDIDATE
  ELSE IF (~isCompleted[process]) /\ NeedsAreMet(process, currentAvaliable)
       THEN process
       ELSE FindCandidateDownFrom(process - 1, isCompleted, currentAvaliable)

\* faulty variant: the scan runs from the highest index down
FindCandidateProcessHighestFirst(isCompleted, currentAvaliable) ==
  FindCandidateDownFrom(numProcesses - 1, isCompleted, currentAvaliable)

FindCandidateProcess(isCompleted, currentAvaliable) ==
  FindCandidateFrom(0, isCompleted, currentAvaliable)

\* faulty variant: the release loop starts at resource 1
ReleaseAllocatedResourcesSkipFirst(process, available) ==
  [resource \in DOMAIN available |->
     IF 0 < resource /\ resource < numResources
     THEN available[resource] + allocation[process][resource]
     ELSE available[resource]]

ReleaseAllocatedResources(process, available) ==
  [resource \in DOMAIN available |->
     IF resource < numResources
     THEN available[resource] + allocation[process][resource]
     ELSE available[resource]]

(***************************************************************************)
(* State::isSafe, one action per step                                      *)
(***************************************************************************)
\* entry: the local copy of resourceAvailable and the cleared completed array
IsSafeCall ==
  /\ pc = "idle"
  /\ WithinArrays
  /\ Len(verdicts) < MaxCalls
  /\ currentAvailable' = CopyVector(numResources, resourceAvailable)
  /\ completed' = [process \in ProcIdx |-> FALSE]
  /\ possible' = TRUE
  /\ pc' = "while"
  /\ iterations' = 0
  /\ order' = <<>>
  /\ UNCHANGED <<numProcesses, numResources, claim, allocation, need,
                 resourceTotal, resourceAvailable, loadOutcome, lastFile, verdicts>>

\* faulty variant: the loop releases into the member resourceAvailable as well
IsSafeIterateOnMember ==
  /\ pc = "while"
  /\ possible
  /\ iterations < IterationCap
  /\ LET candidateProcess == FindCandidateProcess(completed, currentAvailable)
     IN  IF candidateProcess # NO_CANDIDATE
         THEN /\ currentAvailable' = ReleaseAllocatedResources(candidateProcess, currentAvailable)
              /\ resourceAvailable' =
                   [r \in ResIdx |->
                      IF r < numResources
                      THEN resourceAvailable[r] + allocation[candidateProcess][r]
                      ELSE resourceAvailable[r]]
              /\ completed' = [completed EXCEPT ![candidateProcess] = TRUE]
              /\ order' = Append(order, candidateProcess)
              /\ UNCHANGED <<possible, pc>>
         ELSE /\ possible' = FALSE
              /\ pc' = "return"
              /\ UNCHANGED <<currentAvailable, completed, order, resourceAvailable>>
  /\ iterations' = iterations + 1
  /\ UNCHANGED <<numProcesses, numResources, claim, allocation, need,
                 resourceTotal, loadOutcome, lastFile, verdicts>>

\* one iteration of while (possible)
IsSafeIterate ==
  /\ pc = "while"
  /\ possible
  /\ iterations < IterationCap
  /\ LET candidateProcess == FindCandidateProcess(completed, currentAvailable)
     IN  IF candidateProcess # NO_CANDIDATE
         THEN /\ currentAvailable' = ReleaseAllocatedResources(candidateProcess, currentAvailable)
              /\ completed' = [completed EXCEPT ![candidateProcess] = TRUE]
              /\ order' = Append(order, candidateProcess)
              /\ UNCHANGED <<possible, pc>>
         ELSE /\ possible' = FALSE
              /\ pc' = "return"
              /\ UNCHANGED <<currentAvailable, completed, order>>
  /\ iterations' = iterations + 1
  /\ UNCHANGED <<numProcesses, numResources, claim, allocation, need,
                 resourceTotal, resourceAvailable, loadOutcome, lastFile, verdicts>>

\* the final scan of completed and the return; the locals go out of scope
IsSafeReturn ==
  /\ pc = "return"
  /\ verdicts' = Append(verdicts, \A process \in 0 .. (numProcesses - 1) : completed[process])
  /\ pc' = "idle"
  /\ currentAvailable' = <<>>
  /\ completed' = <<>>
  /\ possible' = FALSE
  /\ UNCHANGED <<numProcesses, numResources, claim, allocation, need,
                 resourceTotal, resourceAvailable, loadOutcome, lastFile,
                 iterations, order>>

LoadEnumerated ==
  \E sh \in SmallShapes :
    \E t \in Vectors(sh[2]), c \in Matrices(sh[1], sh[2]) :
      \E a \in Allocations(sh[1], sh[2], c) :
        LoadState(FileOf(sh[1], sh[2], t, c, a))

LoadWritten == \E f \in LifecycleFiles : LoadState(f)

LoadOverCapacity == \E f \in OverCapacityFiles : LoadState(f)

Next ==
  \/ InitializeState
  \/ LoadOverCapacity
  \/ LoadEnumerated
  \/ LoadWritten
  \/ LoadStateNotFound
  \/ InferStateInformation
  \/ IsSafeCall
  \/ IsSafeIterate
  \/ IsSafeReturn

Spec == Init /\ [][Next]_vars

(***************************************************************************)
(* isSafe() as a function of the store: every store a file of SafetyFiles  *)
(* loads, checked once.                                                    *)
(***************************************************************************)
Loaded(f) ==
  /\ StoreIs(LoadedStore(f))
  /\ pc = "idle"
  /\ NoLocals
  /\ loadOutcome = LoadOutcomeOf(f)
  /\ lastFile = f
  /\ verdicts = <<>>
  /\ iterations = 0
  /\ order = <<>>

InitSafe ==
  \/ \E sh \in Shapes :
       \E t \in Vectors(sh[2]), c \in Matrices(sh[1], sh[2]) :
         \E a \in Allocations(sh[1], sh[2], c) :
           Loaded(FileOf(sh[1], sh[2], t, c, a))
  \/ \E f \in SafetyFiles : Loaded(f)

FirstIsSafeCall == verdicts = <<>> /\ IsSafeCall

NextSafe ==
  \/ FirstIsSafeCall
  \/ IsSafeIterate
  \/ IsSafeReturn

SpecSafe == InitSafe /\ [][NextSafe]_vars

(***************************************************************************)
(* Properties.                                                             *)
(***************************************************************************)
ActiveProcesses == 0 .. (numProcesses - 1)

ActiveResources == 0 .. (numResources - 1)

\* isSafe() has returned and nothing has touched the store since
Returned == pc = "idle" /\ Len(verdicts) > 0

LastVerdict == verdicts[Len(verdicts)]

CompletedSet == { p \in ActiveProcesses : completed[p] }

RECURSIVE AllocatedSum(_, _)
\* the sum of column r of allocation over the processes of P
AllocatedSum(P, r) ==
  IF P = {}
  THEN 0
  ELSE LET p == CHOOSE x \in P : TRUE
       IN  allocation[p][r] + AllocatedSum(P \ {p}, r)

WellFormed ==
  /\ 0 <= numProcesses /\ numProcesses <= MAX_PROCESSES
  /\ 0 <= numResources /\ numResources <= MAX_RESOURCES
  /\ \A p \in ActiveProcesses : \A r \in ActiveResources :
       /\ allocation[p][r] >= 0
       /\ need[p][r] = claim[p][r] - allocation[p][r]
       /\ need[p][r] >= 0
  /\ \A r \in ActiveResources : resourceAvailable[r] >= 0

NonNegativeAllocation ==
  \A p \in ActiveProcesses : \A r \in ActiveResources : allocation[p][r] >= 0

\* the processes at positions 0 .. i-1 of the ordering pi
EarlierIn(pi, i) == { pi[j] : j \in 0 .. (i - 1) }

\* every process of the ordering pi can run with what is available plus
\* what the processes before it held
RunsToCompletion(pi) ==
  \A i \in ActiveProcesses : \A r \in ActiveResources :
    need[pi[i]][r] <= resourceAvailable[r] + AllocatedSum(EarlierIn(pi, i), r)

SafeOrderingExists == \E pi \in Permutations(ActiveProcesses) : RunsToCompletion(pi)

\* C1: on a well-formed store isSafe() returns true exactly when some
\* ordering of all the processes lets each one run with resourceAvailable
\* plus the allocations of the processes before it
C1_SafeIffOrderingExists ==
  (Returned /\ WellFormed) => (LastVerdict <=> SafeOrderingExists)

C1_Witness ==
  /\ Returned /\ WellFormed
  /\ numProcesses >= 2 /\ numResources >= 2
  /\ LastVerdict
  /\ order[1] # 0
  /\ \E p \in ActiveProcesses : \E r \in ActiveResources : allocation[p][r] > 0

\* C2: no step of isSafe() changes a member of the store, and the calls
\* made on an unchanged store all return the same verdict
C2_IsSafeIsPure ==
  /\ [][(pc # "idle" \/ pc' # "idle") =>
          /\ numProcesses' = numProcesses
          /\ numResources' = numResources
          /\ claim' = claim
          /\ allocation' = allocation
          /\ need' = need
          /\ resourceTotal' = resourceTotal
          /\ resourceAvailable' = resourceAvailable]_vars
  /\ [](\A i \in 1 .. Len(verdicts) : \A j \in 1 .. Len(verdicts) :
          verdicts[i] = verdicts[j])

C2_Witness ==
  /\ pc = "idle"
  /\ Len(verdicts) = 2
  /\ numProcesses >= 2
  /\ Len(order) >= 1
  /\ \E r \in ActiveResources : allocation[order[1]][r] > 0

\* C3: with 0 <= N <= MAX_PROCESSES the while loop of isSafe() runs at most
\* N + 1 times; an iteration marks exactly one process that was not marked
\* before, or marks none and ends the loop; no process is marked twice
C3_LoopTerminates ==
  /\ [](((0 <= numProcesses) /\ (numProcesses <= MAX_PROCESSES)) =>
          /\ iterations <= numProcesses + 1
          /\ (pc = "while" => iterations <= numProcesses)
          /\ \A i \in 1 .. Len(order) : \A j \in 1 .. Len(order) :
               (i # j) => (order[i] # order[j]))
  /\ [][(pc = "while" /\ 0 <= numProcesses /\ numProcesses <= MAX_PROCESSES) =>
          /\ iterations' = iterations + 1
          /\ \/ /\ pc' = "while"
                /\ \E p \in ActiveProcesses :
                     /\ ~completed[p]
                     /\ completed' = [completed EXCEPT ![p] = TRUE]
             \/ /\ pc' = "return"
                /\ completed' = completed]_vars

C3_Witness ==
  /\ pc = "return"
  /\ numProcesses = MAX_PROCESSES
  /\ iterations = numProcesses + 1

RECURSIVE AnyOrderOutcomes(_, _)
\* the simulation that completes any process whose need row fits: the set
\* of its possible results (all processes completed or not)
AnyOrderOutcomes(done, available) ==
  LET candidates ==
        { p \in ActiveProcesses \ done :
            \A r \in ActiveResources : need[p][r] <= available[r] }
  IN  IF candidates = {}
      THEN { done = ActiveProcesses }
      ELSE UNION { AnyOrderOutcomes(done \cup {p},
                     [r \in ActiveResources |-> available[r] + allocation[p][r]]) :
                   p \in candidates }

AnyOrderVerdicts ==
  AnyOrderOutcomes({}, [r \in ActiveResources |-> resourceAvailable[r]])

\* C4 as stated: on every store, whichever fitting process the simulation
\* completes at each step, it ends with all processes completed exactly
\* when isSafe() returns true
C4_VerdictIndependentOfChoice ==
  Returned => (\A outcome \in AnyOrderVerdicts : outcome = LastVerdict)

\* C4 amended: the same, on every store whose allocations are not negative
C4_VerdictIndependentOfChoiceNonNegative ==
  (Returned /\ NonNegativeAllocation) =>
    (\A outcome \in AnyOrderVerdicts : outcome = LastVerdict)

C4_Witness ==
  /\ Returned /\ NonNegativeAllocation
  /\ LastVerdict
  /\ \E p \in ActiveProcesses : \E q \in ActiveProcesses :
       /\ p # q
       /\ \A r \in ActiveResources :
            need[p][r] <= resourceAvailable[r] /\ need[q][r] <= resourceAvailable[r]
  /\ \E p \in ActiveProcesses : \E r \in ActiveResources :
       need[p][r] > resourceAvailable[r]

NothingAvailable == \A r \in ActiveResources : resourceAvailable[r] = 0

\* C5 as stated: with N >= 1, M >= 1, nothing available and some process
\* needing every resource type, isSafe() returns false
C5_NothingAvailableUnsafe ==
  ( /\ Returned
    /\ numProcesses >= 1 /\ numResources >= 1
    /\ NothingAvailable
    /\ \E p \in ActiveProcesses : \A r \in ActiveResources : need[p][r] > 0 )
  => (LastVerdict = FALSE)

\* C5 amended: with N >= 1, M >= 1, nothing available and every process
\* needing at least one resource type, isSafe() returns false
C5_NothingAvailableAllNeedy ==
  ( /\ Returned
    /\ numProcesses >= 1 /\ numResources >= 1
    /\ NothingAvailable
    /\ \A p \in ActiveProcesses : \E r \in ActiveResources : need[p][r] > 0 )
  => (LastVerdict = FALSE)

C5_Witness ==
  /\ Returned
  /\ numProcesses >= 2 /\ numResources >= 2
  /\ NothingAvailable
  /\ \A p \in ActiveProcesses : \E r \in ActiveResources : need[p][r] > 0
  /\ \E p \in ActiveProcesses : \E r \in ActiveResources : need[p][r] = 0
  /\ LastVerdict = FALSE

NothingNeeded == \A p \in ActiveProcesses : \A r \in ActiveResources : need[p][r] = 0

\* C6 as stated: when no process needs anything, isSafe() returns true
\* whatever resourceAvailable holds
C6_NothingNeededSafe == (Returned /\ NothingNeeded) => LastVerdict

\* C6 amended: when no process needs anything and neither resourceAvailable
\* nor the allocations are negative, isSafe() returns true
C6_NothingNeededSafeNonNegative ==
  ( /\ Returned /\ NothingNeeded
    /\ NonNegativeAllocation
    /\ \A r \in ActiveResources : resourceAvailable[r] >= 0 )
  => LastVerdict

C6_Witness ==
  /\ Returned /\ NothingNeeded /\ NonNegativeAllocation
  /\ numProcesses >= 2 /\ numResources >= 1
  /\ NothingAvailable
  /\ Len(order) = numProcesses
  /\ LastVerdict

AllUnset ==
  /\ \A r \in ResIdx : resourceTotal[r] = BAD_VALUE
  /\ \A p \in ProcIdx : \A r \in ResIdx :
       claim[p][r] = BAD_VALUE /\ allocation[p][r] = BAD_VALUE

HoldsFile(f) ==
  /\ numProcesses = FileProcesses(f)
  /\ numResources = FileResources(f)
  /\ \A r \in ActiveResources : resourceTotal[r] = FileTotal(f)[r + 1]
  /\ \A p \in ActiveProcesses : \A r \in ActiveResources :
       /\ claim[p][r] = FileClaim(f)[p + 1][r + 1]
       /\ allocation[p][r] = FileAlloc(f)[p + 1][r + 1]

\* C7: loadState of a file with N <= MAX_PROCESSES and M <= MAX_RESOURCES
\* succeeds and the store holds the file; with N or M above the maximum it
\* throws and no total, claim or allocation cell holds a value
C7_CapacityBoundary ==
  (loadOutcome \in {"loaded", "maxExceeded"}) =>
    /\ lastFile # NoFile
    /\ ( (FileProcesses(lastFile) <= MAX_PROCESSES /\ FileResources(lastFile) <= MAX_RESOURCES)
         => (loadOutcome = "loaded" /\ HoldsFile(lastFile)) )
    /\ ( (FileProcesses(lastFile) > MAX_PROCESSES \/ FileResources(lastFile) > MAX_RESOURCES)
         => (loadOutcome = "maxExceeded" /\ AllUnset) )

C7_Witness ==
  /\ loadOutcome = "maxExceeded"
  /\ FileProcesses(lastFile) = MAX_PROCESSES + 1
  /\ FileResources(lastFile) <= MAX_RESOURCES
  /\ AllUnset

DerivedFrom(f) ==
  /\ HoldsFile(f)
  /\ \A p \in ActiveProcesses : \A r \in ActiveResources :
       need[p][r] = claim[p][r] - allocation[p][r]
  /\ \A r \in ActiveResources :
       resourceAvailable[r] = resourceTotal[r] - AllocatedSum(ActiveProcesses, r)

ClassicDerived ==
  /\ \A r \in ActiveResources : resourceAvailable[r] = <<3, 3, 2>>[r + 1]
  /\ \A p \in ActiveProcesses : \A r \in ActiveResources :
       need[p][r] =
         << <<7, 4, 3>>, <<1, 2, 2>>, <<6, 0, 0>>, <<0, 1, 1>>, <<4, 3, 1>> >>[p + 1][r + 1]

\* C8: after a successful loadState need = claim - allocation and
\* resourceAvailable = resourceTotal minus the column sums of allocation,
\* with claim, allocation and resourceTotal as read; running the derivation
\* again changes nothing; the classic example derives available 3 3 2
C8_Derivation ==
  /\ []((lastFile # NoFile /\ loadOutcome = "loaded") => DerivedFrom(lastFile))
  /\ []((lastFile = ClassicFile) => ClassicDerived)
  /\ [][InferStateInformation =>
          /\ numProcesses' = numProcesses
          /\ numResources' = numResources
          /\ claim' = claim
          /\ allocation' = allocation
          /\ need' = need
          /\ resourceTotal' = resourceTotal
          /\ resourceAvailable' = resourceAvailable]_vars

C8_Witness ==
  /\ lastFile = ClassicFile
  /\ loadOutcome = "loaded"
  /\ numProcesses = 5 /\ numResources = 3
  /\ resourceAvailable[0] = 3 /\ need[0][0] = 7 /\ need[4][2] = 1

\* C9: the process and resource counts of the store are always within
\* 0 .. MAX_PROCESSES and 0 .. MAX_RESOURCES
C9_CountsWithinCapacity ==
  /\ 0 <= numProcesses /\ numProcesses <= MAX_PROCESSES
  /\ 0 <= numResources /\ numResources <= MAX_RESOURCES

InLoop == pc \in {"while", "return"}

Fits(p) == \A r \in ActiveResources : need[p][r] <= currentAvailable[r]

\* C10: each iteration of isSafe() that completes a process completes the
\* lowest-index process that is not completed and whose need row fits the
\* working vector, and adds exactly its allocation row to the working
\* vector; the working vector is always resourceAvailable plus the
\* allocations of the completed processes; the classic example completes
\* P1, P3, P0, P2, P4
C10_LowestIndexFirst ==
  /\ [][(pc = "while" /\ pc' = "while") =>
          \E p \in ActiveProcesses :
            /\ ~completed[p] /\ Fits(p)
            /\ \A q \in ActiveProcesses : (q < p) => (completed[q] \/ ~Fits(q))
            /\ completed' = [completed EXCEPT ![p] = TRUE]
            /\ order' = Append(order, p)
            /\ DOMAIN currentAvailable' = DOMAIN currentAvailable
            /\ \A r \in ActiveResources :
                 currentAvailable'[r] = currentAvailable[r] + allocation[p][r]]_vars
  /\ [](InLoop =>
          \A r \in ActiveResources :
            currentAvailable[r] = resourceAvailable[r] + AllocatedSum(CompletedSet, r))
  /\ []((lastFile = ClassicFile /\ pc = "return") => (order = <<1, 3, 0, 2, 4>>))

C10_Witness ==
  /\ lastFile = ClassicFile
  /\ pc = "return"
  /\ order = <<1, 3, 0, 2, 4>>
  /\ \A r \in ActiveResources : currentAvailable[r] = resourceTotal[r]

====
